---- MODULE Spec2Model ----
(***************************************************************************)
(* A model of compress_comics: the per-archive transcode-and-archive       *)
(* pipeline (ComicCompressor of src/src/compress_comics and the functions  *)
(* of src/src/compress_comics_TheHardew), the batch loops around it, and   *)
(* the directory-based passthrough copy of the script src/compress_comics. *)
(***************************************************************************)
EXTENDS Naturals, Integers, Sequences, FiniteSets, TLC

\* ------------------------------------------------------------------ bounds
\* Largest number of files left in one extracted tree.
MaxFiles == 3
\* program_options.threads: the size T of the worker pool.
Threads == 2
\* Largest number of archives in one batch.
MaxBooks == 2
\* Largest number of interrupt signals delivered in one behaviour.
MaxInterrupts == 1
MaxInputs == 2
CpuCount == 4

\* ------------------------------------------------------------------- paths
\* A relative path of the extracted tree: directory, stem and suffix.
P(d, s, e) == [dir |-> d, stem |-> s, ext |-> e]

\* The files an extracted archive may hold once the cleaning step has run,
\* listed in the order in which the directory scan returns them.
GlobOrder ==
  << P("", "a", ".jpg"), P("", "a", ".gif"), P("sub", "b", ".PNG"),
     P("", "a", ".jxl"), P("", "n", ".txt"), P("sub", "m", ".xml"),
     P("", "bad", ".docx"), P("sub", "c", ".sfv") >>

\* Files the archive may hold that the cleaning step removes.
NoiseFiles == { P("", "Thumbs", ".db"), P("", "x", ".sfv") }

Universe == { GlobOrder[i] : i \in 1..Len(GlobOrder) } \cup NoiseFiles

\* str.lower() on a suffix.
Lower(e) ==
  CASE e = ".PNG" -> ".png"
    [] e = ".JPG" -> ".jpg"
    [] OTHER -> e

\* Path.with_suffix
with_suffix(f, e) == [f EXCEPT !.ext = e]

transcoded_extensions == {".jpg", ".jpeg", ".png", ".gif"}
copied_extensions == {".txt", ".xml", ".jxl"}

IsTranscodable(f) == Lower(f.ext) \in transcoded_extensions
IsPassthrough(f) == Lower(f.ext) \in copied_extensions

\* ----------------------------------------------------------------- content
\* What a path of the file system holds.
Absent == [k |-> "absent", e |-> {}]
Orig == [k |-> "orig", e |-> {}]
Old == [k |-> "old", e |-> {}]
Empty == [k |-> "empty", e |-> {}]
Torn == [k |-> "torn", e |-> {}]
Zip(entries) == [k |-> "zip", e |-> entries]
Dir(entries) == [k |-> "dir", e |-> entries]

Exists(c) == c.k # "absent"

\* One archive entry: its name and its payload (the encoder's output for a
\* file, or the file's own bytes).
JxlEntry(f) == [name |-> with_suffix(f, ".jxl"), data |-> <<"jxl", f>>]
RawEntry(f) == [name |-> f, data |-> <<"raw", f>>]

\* The entry an append leaves when it is interrupted after the member was
\* opened and before its data was written: the name, with no data.
CutEntry(f) == [name |-> with_suffix(f, ".jxl"), data |-> <<"cut", f>>]

\* zipfile.ZipFile(path, 'a'): entries are added to a readable archive; a
\* file that is no archive (missing, empty, or cut off in mid-append) is
\* begun anew.
ZipAppend(c, entries) == Zip((IF c.k = "zip" THEN c.e ELSE {}) \cup entries)

\* ZipFile.namelist()
namelist(c) == { x.name : x \in c.e }

\* ------------------------------------------------------------- pure steps
\* __clean_tmp_dir: glob('*.sfv') and glob('Thumbs.db') on the top directory.
clean_tmp_dir(t) ==
  { f \in t : ~(f.dir = "" /\ (f.ext = ".sfv" \/ (f.stem = "Thumbs" /\ f.ext = ".db"))) }

\* The image files of the tree as a job list.
\* ComicCompressor.__transcode lists them suffix by suffix; transcode of
\* compress_comics_TheHardew keeps the scan order.
FilesWithSuffix(t, e) ==
  SelectSeq(GlobOrder, LAMBDA f : f \in t /\ Lower(f.ext) = e)

\* A job list that visits the .jpg files a second time.
C28_JpgListedTwice(t) ==
  FilesWithSuffix(t, ".png") \o FilesWithSuffix(t, ".gif")
    \o FilesWithSuffix(t, ".jpg") \o FilesWithSuffix(t, ".jpg")

class_files(t) ==
  FilesWithSuffix(t, ".png") \o FilesWithSuffix(t, ".gif")
    \o FilesWithSuffix(t, ".jpg") \o FilesWithSuffix(t, ".jpeg")

hardew_files(t) == SelectSeq(GlobOrder, LAMBDA f : f \in t /\ IsTranscodable(f))

\* __copy_files / copy_files (archive version): the entries written.
copy_files_entries(t) == { RawEntry(f) : f \in { g \in t : IsPassthrough(g) } }

\* __check_transcoding / check_transcoding: TRUE when it raises.
\* Both tests of is_file() are made on the path as it stands: after the swap
\* to .jxl the second test asks whether the .jxl path is a file of the tree.
check_transcoding_raises(t, names) ==
  \E f \in t :
    LET g == IF IsTranscodable(f) THEN with_suffix(f, ".jxl") ELSE f
    IN g \in t /\ g \notin names

\* The script src/compress_comics.py -------------------------------------
script_extensions == {".gif", ".jpg", ".jpeg", ".png", ".jxl", ".xml", ".txt"}

\* check_file_types: TRUE when it exits the program.
check_file_types_exits(t) == \E f \in t : Lower(f.ext) \notin script_extensions

\* A file written into a directory replaces the file of that name.
Put(entries, x) == { y \in entries : y.name # x.name } \cup {x}

\* shutil.copy(file, processed_dir): the copy lands in processed_dir itself,
\* under the file's base name.
CopyIntoDir(entries, f) ==
  Put(entries, [name |-> [f EXCEPT !.dir = ""], data |-> <<"raw", f>>])

\* copy_files(processed_dir), the passthrough files taken in scan order.
RECURSIVE script_copy_from(_, _, _)
script_copy_from(i, t, entries) ==
  IF i > Len(GlobOrder) THEN entries
  ELSE script_copy_from(i + 1, t,
         IF GlobOrder[i] \in t /\ IsPassthrough(GlobOrder[i])
           THEN CopyIntoDir(entries, GlobOrder[i]) ELSE entries)

script_copy_files(t, entries) == script_copy_from(1, t, entries)

\* The directories transcode_file of the script may leave behind for a set
\* of encoded images: one file per output name.
EncodedDirs(done) ==
  { d \in SUBSET { JxlEntry(f) : f \in done } :
      /\ \A f \in done : \E x \in d : x.name = with_suffix(f, ".jxl")
      /\ \A x \in d : \A y \in d : x.name = y.name => x = y }

\* flag == 'True' on a flag parsed with action='store_true': a bool never
\* equals a str.
EqualsText(flag, text) == IF flag \in BOOLEAN THEN FALSE ELSE flag = text


\* ------------------------------------------------------------------- state
VARIABLES
  variant,    \* which program runs: "class" (a ComicCompressor used directly),
              \* "hardew" (compress_comics_TheHardew), "package" (the batch
              \* loop of src/src/compress_comics)
  mode,       \* the placement mode given on the command line
  batch,      \* "none" | "running" | "finished" | "aborted"
  remaining,  \* archives of the batch after the one in flight
  book,       \* the number of the archive in flight, counted from 1
  compressed_size,  \* compress_all_comics: the aggregate compressed size
  sizes,      \* the compressed size each archive of the batch had on its own
  input_file,       \* the archive whose output name is resolved
  output_file,      \* the resolved output name, or "none"
  argv,             \* the options given on the command line
  encoder_options,  \* the encoder's options as parse_args returns them
  program_string,   \* the encoder command line built by _transcode_file
  pc,         \* the orchestrator's position for the archive in flight
  exc,        \* the exception that ended the archive, or "none"
  fs,         \* what the source, destination and temporary paths hold
  tmpdir,     \* the '.compressed_books*' directory exists
  scratch,    \* the scratch extraction directory exists
  cwd,        \* the process working directory: "base" | "scratch"
  tree,       \* the files of the scratch directory
  files,      \* the job list: the image files in dispatch order
  js,         \* the state of each job
  pool,       \* "none" | "run" | "closed" | "terminated"
  nIntr       \* interrupt signals delivered so far

vars ==
  << variant, mode, batch, remaining, book, compressed_size, sizes, pc, exc, fs,
     tmpdir, scratch, cwd, tree, files, js, pool, nIntr,
     input_file, output_file, argv, encoder_options, program_string >>

\* The name resolution and the command line are followed in specifications
\* of their own; elsewhere their variables rest.
NoSetup ==
  /\ input_file = "none"
  /\ output_file = "none"
  /\ argv = "none"
  /\ encoder_options = "none"
  /\ program_string = << >>

Variants == {"class", "hardew", "package", "script"}
Modes == {"new_directory", "overwrite", "overwrite_destination"}

\* The archives an extraction may yield.
Archives == { a \in SUBSET Universe : Cardinality(clean_tmp_dir(a)) <= MaxFiles
                                       /\ Cardinality(a \cap NoiseFiles) <= 1 }

overwrite == mode = "overwrite"
overwrite_destination == mode = "overwrite_destination"

\* The path at which the finished archive is to appear.
FinalPath == IF overwrite THEN "src" ELSE "dest"

\* A worker that writes straight to the final path.
C4_WriteToFinalPath == FinalPath

\* The path the workers and the passthrough copy write to: temporary_output
\* of ComicCompressor.__transcode, output_file of transcode.
WriteTarget ==
  IF variant = "hardew" /\ mode = "new_directory" THEN "dest" ELSE "tmp"

Jobs == 1..Len(files)
RunningStates == {"encoding", "encoded", "writing"}
Running == { i \in Jobs : js[i] \in RunningStates }

\* A lock that is never seen as taken.
C13_NoLock == FALSE

\* manager.Lock() is held: a worker is inside 'with lock'.
LockHeld == \E i \in Jobs : js[i] = "writing"

\* Encoder subprocesses launched for the archive in flight.
Launches == Cardinality({ i \in Jobs : js[i] \notin {"new", "queued"} })

\* The workers of a pool that was terminated and left behind by a raise:
\* every live worker is killed; queued jobs never run.
Killed(j) == [i \in DOMAIN j |-> IF j[i] \in RunningStates THEN "killed" ELSE j[i]]

\* What the written file holds once a worker inside the append was killed:
\* a worker killed between writestr and close leaves the archive without its
\* index.
AfterKill(c) == IF LockHeld THEN Torn ELSE c

FreshFs(d) == [src |-> Orig, dest |-> d, tmp |-> Absent]

\* A resolution that never looks whether the destination exists.
C8_NoExistsCheck == FALSE

\* __get_output_filename raises FileExistsError.
get_output_filename_raises ==
  ~overwrite /\ Exists(fs.dest) /\ ~overwrite_destination

\* get_output_filename of compress_comics_TheHardew raises FileExistsError:
\* the test is reached only when neither flag is set.
hardew_get_output_filename_raises ==
  ~overwrite /\ ~overwrite_destination /\ Exists(fs.dest)

Init ==
  /\ variant \in Variants
  /\ mode \in (IF variant \in {"package", "script"} THEN Modes \ {"overwrite_destination"} ELSE Modes)
  /\ batch = IF variant \in {"class", "script"} THEN "none" ELSE "running"
  /\ remaining \in (IF variant \in {"class", "script"} THEN {0} ELSE 0..(MaxBooks - 1))
  /\ book = 1
  /\ compressed_size = 0
  /\ sizes = << >>
  /\ pc = "start"
  /\ exc = "none"
  /\ fs \in { FreshFs(d) : d \in (IF overwrite THEN {Absent} ELSE {Absent, Old}) }
  /\ tmpdir = FALSE
  /\ scratch = FALSE
  /\ cwd = "base"
  /\ tree = {}
  /\ files = << >>
  /\ js = << >>
  /\ pool = "none"
  /\ nIntr = 0
  /\ NoSetup

\* ------------------------------------------------------- failure handling
\* An except clause that re-raises from inside the scratch directory.
C37_StayInScratch(e) ==
  /\ pc' = "raised"
  /\ exc' = e
  /\ cwd' = cwd
  /\ scratch' = FALSE
  /\ batch' = IF variant = "hardew" THEN "aborted" ELSE batch

\* compress / compress_comic, except clause: back to the base directory, the
\* scratch directory is gone, the exception goes on to the caller; the batch
\* loops let it through.
RaiseFromCompress(e) ==
  /\ pc' = "raised"
  /\ exc' = e
  /\ cwd' = "base"
  /\ scratch' = FALSE
  /\ batch' = IF variant = "hardew" THEN "aborted" ELSE batch

\* An except clause that terminates the pool and leaves the temporary
\* directory and its archive where they are.
C12_KeepTemporary(e) ==
  /\ RaiseFromCompress(e)
  /\ pool' = "terminated"
  /\ js' = Killed(js)
  /\ UNCHANGED << tmpdir, fs >>

\* The except clause of __transcode / transcode and the exits of its with
\* block: pool.terminate(), the temporary output is removed, re-raise.
RaiseFromTranscode(e) ==
  /\ RaiseFromCompress(e)
  /\ pool' = "terminated"
  /\ js' = Killed(js)
  /\ tmpdir' = FALSE
  /\ fs' = [fs EXCEPT ![WriteTarget] = Absent]

\* ---------------------------------------------------------- orchestrator
\* ComicCompressor.__init__ with __get_output_filename.
Construct ==
  /\ variant = "class" /\ pc = "start"
  /\ IF get_output_filename_raises
       THEN pc' = "rejected" /\ exc' = "FileExistsError"
       ELSE pc' = "ready" /\ exc' = exc
  /\ UNCHANGED << input_file, output_file, argv, encoder_options, program_string,
                  compressed_size, sizes, book, variant, mode, batch, remaining, fs, tmpdir, scratch, cwd, tree,
                  files, js, pool, nIntr >>

\* compress_all_comics of compress_comics_TheHardew up to its first archive.
HardewStart ==
  /\ variant = "hardew" /\ pc = "start"
  /\ pc' = "ready"
  /\ UNCHANGED << input_file, output_file, argv, encoder_options, program_string,
                  compressed_size, sizes, book, variant, mode, batch, remaining, exc, fs, tmpdir, scratch, cwd,
                  tree, files, js, pool, nIntr >>

\* compress_all_comics of src/src/compress_comics: find_input_files raises
\* when an output exists and -o is not given; otherwise the first
\* ComicCompressor(...) call passes five arguments to an __init__ of four.
PackageBatch ==
  /\ variant = "package" /\ pc = "start"
  /\ \E laterExists \in (IF remaining > 0 THEN BOOLEAN ELSE {FALSE}) :
       exc' = IF ~overwrite /\ (Exists(fs.dest) \/ laterExists)
                THEN "FileExistsError" ELSE "TypeError"
  /\ pc' = "raised"
  /\ batch' = "aborted"
  /\ UNCHANGED << input_file, output_file, argv, encoder_options, program_string,
                  compressed_size, sizes, book, variant, mode, remaining, fs, tmpdir, scratch, cwd, tree, files,
                  js, pool, nIntr >>

\* compress / compress_comic: unpack, clean, chdir into the scratch directory.
CompressBegin ==
  /\ pc = "ready"
  /\ \E a \in Archives : tree' = clean_tmp_dir(a)
  /\ scratch' = TRUE
  /\ cwd' = "scratch"
  /\ pc' = "unpacked"
  /\ UNCHANGED << input_file, output_file, argv, encoder_options, program_string,
                  compressed_size, sizes, book, variant, mode, batch, remaining, exc, fs, tmpdir, files, js,
                  pool, nIntr >>

\* __transcode / transcode up to the dispatch loop: the job list, the pool,
\* the temporary output. transcode resolves the output name here.
TranscodeBegin ==
  /\ pc = "unpacked"
  /\ files' = IF variant = "class" THEN class_files(tree) ELSE hardew_files(tree)
  /\ js' = [i \in 1..Len(files') |-> "new"]
  /\ IF variant = "class"
       THEN /\ tmpdir' = TRUE
            /\ pool' = "run"
            /\ pc' = "dispatch"
            /\ UNCHANGED << fs, cwd, scratch >>
       ELSE IF overwrite \/ overwrite_destination
       THEN /\ fs' = [fs EXCEPT !.tmp = Empty]
            /\ pool' = "run"
            /\ pc' = "dispatch"
            /\ UNCHANGED << tmpdir, cwd, scratch >>
       ELSE IF hardew_get_output_filename_raises
       THEN /\ pool' = "terminated"
            /\ pc' = "skipped"
            /\ cwd' = "base"
            /\ scratch' = FALSE
            /\ UNCHANGED << fs, tmpdir >>
       ELSE /\ pool' = "run"
            /\ pc' = "dispatch"
            /\ UNCHANGED << fs, tmpdir, cwd, scratch >>
  /\ UNCHANGED << input_file, output_file, argv, encoder_options, program_string,
                  compressed_size, sizes, book, variant, mode, batch, remaining, exc, tree, nIntr >>

\* One pool.apply_async of the dispatch loop; it raises once the pool has
\* been terminated.
Dispatch ==
  /\ pc = "dispatch"
  /\ \E i \in Jobs :
       /\ js[i] = "new"
       /\ \A j \in 1..(i - 1) : js[j] # "new"
       /\ IF pool = "run"
            THEN /\ js' = [js EXCEPT ![i] = "queued"]
                 /\ UNCHANGED << pc, exc, cwd, scratch, batch, pool, tmpdir, fs >>
            ELSE RaiseFromTranscode("ValueError")
  /\ UNCHANGED << input_file, output_file, argv, encoder_options, program_string,
                  compressed_size, sizes, book, variant, mode, remaining, tree, files, nIntr >>

\* pool.close() after the last apply_async.
PoolClose ==
  /\ pc = "dispatch"
  /\ \A i \in Jobs : js[i] # "new"
  /\ pool' = IF pool = "run" THEN "closed" ELSE pool
  /\ pc' = "poll"
  /\ UNCHANGED << input_file, output_file, argv, encoder_options, program_string,
                  compressed_size, sizes, book, variant, mode, batch, remaining, exc, fs, tmpdir, scratch, cwd,
                  tree, files, js, nIntr >>

\* A dispatcher that goes on without waiting for the pool.
C15_NoJoin ==
  /\ pc = "poll"
  /\ pc' = "copy"
  /\ UNCHANGED << input_file, output_file, argv, encoder_options, program_string,
                  compressed_size, sizes, book, variant, mode, batch, remaining, exc, fs, tmpdir, scratch, cwd,
                  tree, files, js, pool, nIntr >>

\* A polling loop that waits until every job has reported a result.
C30_WaitsForEveryResult ==
  /\ pc = "poll"
  /\ \A i \in Jobs : js[i] = "counted"
  /\ pc' = "copy"
  /\ UNCHANGED << input_file, output_file, argv, encoder_options, program_string,
                  compressed_size, sizes, book, variant, mode, batch, remaining, exc, fs, tmpdir, scratch, cwd,
                  tree, files, js, pool, nIntr >>

\* The active_children polling loop and pool.join(): they end when the
\* workers have exited, after the result handler has handled every result
\* or after the pool was terminated and its workers are dead.
Join ==
  /\ pc = "poll"
  /\ \/ pool = "terminated" /\ Running = {}
     \/ \A i \in Jobs : js[i] = "counted"
  /\ pc' = "copy"
  /\ UNCHANGED << input_file, output_file, argv, encoder_options, program_string,
                  compressed_size, sizes, book, variant, mode, batch, remaining, exc, fs, tmpdir, scratch, cwd,
                  tree, files, js, pool, nIntr >>

\* __copy_files / copy_files.
CopyFiles ==
  /\ pc = "copy"
  /\ fs' = [fs EXCEPT ![WriteTarget] = ZipAppend(@, copy_files_entries(tree))]
  /\ pc' = "verify"
  /\ UNCHANGED << input_file, output_file, argv, encoder_options, program_string,
                  compressed_size, sizes, book, variant, mode, batch, remaining, exc, tmpdir, scratch, cwd, tree,
                  files, js, pool, nIntr >>

\* A run that goes on to the move whatever the verifier found.
C21_IgnoreVerifier ==
  /\ pc = "verify"
  /\ pc' = "move"
  /\ UNCHANGED << input_file, output_file, argv, encoder_options, program_string,
                  compressed_size, sizes, book, variant, mode, batch, remaining, exc, fs, tmpdir, scratch,
                  cwd, tree, files, js, pool, nIntr >>

\* __check_transcoding / check_transcoding.
CheckTranscoding ==
  /\ pc = "verify"
  /\ IF check_transcoding_raises(tree, namelist(fs[WriteTarget]))
       THEN RaiseFromTranscode("RuntimeError")
       ELSE /\ pc' = "move"
            /\ UNCHANGED << exc, cwd, scratch, batch, pool, js, tmpdir, fs >>
  /\ UNCHANGED << input_file, output_file, argv, encoder_options, program_string,
                  compressed_size, sizes, book, variant, mode, remaining, tree, files, nIntr >>

\* The two moves of transcode, each guarded by flag == 'True'.
hardew_moves(f) ==
  IF EqualsText(overwrite, "True")
    THEN [f EXCEPT !.src = f[WriteTarget], ![WriteTarget] = Absent]
  ELSE IF EqualsText(overwrite_destination, "True")
    THEN [f EXCEPT !.dest = f[WriteTarget], ![WriteTarget] = Absent]
  ELSE f

\* move(temporary_output, self.output_file); in transcode the two moves are
\* guarded by flag == 'True'.
Move ==
  /\ pc = "move"
  /\ fs' = IF variant = "class"
             THEN [fs EXCEPT ![FinalPath] = fs.tmp, !.tmp = Absent]
             ELSE hardew_moves(fs)
  /\ pc' = "placed"
  /\ UNCHANGED << input_file, output_file, argv, encoder_options, program_string,
                  compressed_size, sizes, book, variant, mode, batch, remaining, exc, tmpdir, scratch, cwd, tree,
                  files, js, pool, nIntr >>

\* The exits of the with blocks and the return of compress / compress_comic.
Return ==
  /\ pc = "placed"
  /\ pc' = "returned"
  /\ tmpdir' = FALSE
  /\ pool' = "terminated"
  /\ cwd' = "base"
  /\ scratch' = FALSE
  /\ UNCHANGED << input_file, output_file, argv, encoder_options, program_string,
                  compressed_size, sizes, book, variant, mode, batch, remaining, exc, fs, tree, files, js, nIntr >>

\* A KeyboardInterrupt raised in the orchestrating process.
MainInterrupt ==
  /\ nIntr < MaxInterrupts
  /\ nIntr' = nIntr + 1
  /\ \/ /\ pc = "unpacked"
        /\ RaiseFromCompress("KeyboardInterrupt")
        /\ UNCHANGED << fs, tmpdir, pool, js >>
     \/ /\ pc \in {"dispatch", "poll", "copy", "verify", "move", "placed"}
        /\ RaiseFromTranscode("KeyboardInterrupt")
  /\ UNCHANGED << input_file, output_file, argv, encoder_options, program_string,
                  compressed_size, sizes, book, variant, mode, remaining, tree, files >>

\* ---------------------------------------------------------------- workers
\* A pool that starts a process for every queued job.
C29_NoLimit(i) ==
  /\ pool \in {"run", "closed"}
  /\ js[i] = "queued"
  /\ \A j \in 1..(i - 1) : js[j] # "queued"
  /\ js' = [js EXCEPT ![i] = "encoding"]
  /\ UNCHANGED << input_file, output_file, argv, encoder_options, program_string,
                  compressed_size, sizes, book, variant, mode, batch, remaining, pc, exc, fs, tmpdir, scratch,
                  cwd, tree, files, pool, nIntr >>

\* A pool worker takes the next queued job and starts its encoder.
StartEncoder(i) ==
  /\ pool \in {"run", "closed"}
  /\ js[i] = "queued"
  /\ \A j \in 1..(i - 1) : js[j] # "queued"
  /\ Cardinality(Running) < Threads
  /\ js' = [js EXCEPT ![i] = "encoding"]
  /\ UNCHANGED << input_file, output_file, argv, encoder_options, program_string,
                  compressed_size, sizes, book, variant, mode, batch, remaining, pc, exc, fs, tmpdir, scratch,
                  cwd, tree, files, pool, nIntr >>

\* subprocess.run(..., check=True) returns: exit status zero.
EncoderOk(i) ==
  /\ js[i] = "encoding"
  /\ js' = [js EXCEPT ![i] = "encoded"]
  /\ UNCHANGED << input_file, output_file, argv, encoder_options, program_string,
                  compressed_size, sizes, book, variant, mode, batch, remaining, pc, exc, fs, tmpdir, scratch,
                  cwd, tree, files, pool, nIntr >>

\* A worker that does not look at the encoder's exit status before it
\* appends.
C17_UncheckedAppend(i) ==
  /\ js[i] = "encoding"
  /\ js' = [js EXCEPT ![i] = "raised"]
  /\ fs' = [fs EXCEPT ![WriteTarget] = ZipAppend(@, {JxlEntry(files[i])})]
  /\ UNCHANGED << input_file, output_file, argv, encoder_options, program_string,
                  compressed_size, sizes, book, variant, mode, batch, remaining, pc, exc, tmpdir, scratch,
                  cwd, tree, files, pool, nIntr >>

\* subprocess.run raises CalledProcessError: the job's result is an error.
EncoderFails(i) ==
  /\ js[i] = "encoding"
  /\ js' = [js EXCEPT ![i] = "raised"]
  /\ UNCHANGED << input_file, output_file, argv, encoder_options, program_string,
                  compressed_size, sizes, book, variant, mode, batch, remaining, pc, exc, fs, tmpdir, scratch,
                  cwd, tree, files, pool, nIntr >>

\* with lock: the archive is opened and writestr begins.
AcquireLock(i) ==
  /\ js[i] = "encoded"
  /\ ~LockHeld
  /\ js' = [js EXCEPT ![i] = "writing"]
  /\ UNCHANGED << input_file, output_file, argv, encoder_options, program_string,
                  compressed_size, sizes, book, variant, mode, batch, remaining, pc, exc, fs, tmpdir, scratch,
                  cwd, tree, files, pool, nIntr >>

\* The archive is closed with the new entry, the lock released, the job
\* returns.
AppendDone(i) ==
  /\ js[i] = "writing"
  /\ fs' = [fs EXCEPT ![WriteTarget] = ZipAppend(@, {JxlEntry(files[i])})]
  /\ js' = [js EXCEPT ![i] = "returned"]
  /\ UNCHANGED << input_file, output_file, argv, encoder_options, program_string,
                  compressed_size, sizes, book, variant, mode, batch, remaining, pc, exc, tmpdir, scratch, cwd,
                  tree, files, pool, nIntr >>

\* What an interrupted append has written once the with blocks have closed
\* the archive: nothing, the member's name without data, or the whole entry.
InterruptedAppends(f) == { {}, {CutEntry(f)}, {JxlEntry(f)} }

\* except KeyboardInterrupt: pass. The job returns normally; outside the
\* append it leaves no entry.
WorkerInterrupt(i) ==
  /\ js[i] \in RunningStates
  /\ nIntr < MaxInterrupts
  /\ nIntr' = nIntr + 1
  /\ js' = [js EXCEPT ![i] = "returned"]
  /\ IF js[i] = "writing"
       THEN \E w \in InterruptedAppends(files[i]) :
              fs' = [fs EXCEPT ![WriteTarget] = ZipAppend(@, w)]
       ELSE fs' = fs
  /\ UNCHANGED << input_file, output_file, argv, encoder_options, program_string,
                  compressed_size, sizes, book, variant, mode, batch, remaining, pc, exc, tmpdir, scratch,
                  cwd, tree, files, pool >>

\* update_bar, run by the pool's result handler.
SuccessCallback(i) ==
  /\ pool \in {"run", "closed"}
  /\ js[i] = "returned"
  /\ js' = [js EXCEPT ![i] = "counted"]
  /\ UNCHANGED << input_file, output_file, argv, encoder_options, program_string,
                  compressed_size, sizes, book, variant, mode, batch, remaining, pc, exc, fs, tmpdir, scratch,
                  cwd, tree, files, pool, nIntr >>

\* error_handler, run by the pool's result handler: pool.terminate(). The
\* pool takes no more jobs and hands out none; its workers are then killed
\* one by one.
ErrorCallback(i) ==
  /\ pool \in {"run", "closed"}
  /\ js[i] = "raised"
  /\ js' = [js EXCEPT ![i] = "failed"]
  /\ pool' = "terminated"
  /\ UNCHANGED << input_file, output_file, argv, encoder_options, program_string,
                  compressed_size, sizes, book, variant, mode, batch, remaining, pc, exc, fs, tmpdir, scratch,
                  cwd, tree, files, nIntr >>

\* Pool.terminate() reaches a live worker: SIGTERM ends it where it stands.
KillWorker(i) ==
  /\ pool = "terminated"
  /\ js[i] \in RunningStates
  /\ js' = [js EXCEPT ![i] = "killed"]
  /\ fs' = [fs EXCEPT ![WriteTarget] = IF js[i] = "writing" THEN AfterKill(@) ELSE @]
  /\ UNCHANGED << input_file, output_file, argv, encoder_options, program_string,
                  compressed_size, sizes, book, variant, mode, batch, remaining, pc, exc, tmpdir, scratch, cwd,
                  tree, files, pool, nIntr >>

\* ----------------------------------------------------------------- script
\* compress_comic of the script: unpack, clean, check_file_types, chdir.
ScriptBegin ==
  /\ variant = "script" /\ pc = "start"
  /\ \E a \in Archives : tree' = clean_tmp_dir(a)
  /\ IF check_file_types_exits(tree')
       THEN pc' = "exited" /\ exc' = "SystemExit" /\ scratch' = FALSE /\ cwd' = cwd
       ELSE pc' = "s_transcode" /\ exc' = exc /\ scratch' = TRUE /\ cwd' = "scratch"
  /\ UNCHANGED << input_file, output_file, argv, encoder_options, program_string,
                  compressed_size, sizes, book, variant, mode, batch, remaining, fs, tmpdir, files, js, pool, nIntr >>

\* transcode of the script, from the pool's creation to pool.join(): the
\* images encoded before the pool ended are files of the processed
\* directory; an apply_async on a terminated pool raises.
ScriptTranscode ==
  /\ variant = "script" /\ pc = "s_transcode"
  /\ files' = hardew_files(tree)
  /\ pool' = "terminated"
  /\ \E done \in SUBSET { f \in tree : IsTranscodable(f) } :
       /\ js' = [i \in 1..Len(files') |-> IF files'[i] \in done THEN "counted" ELSE "failed"]
       /\ \/ /\ \E d \in EncodedDirs(done) : fs' = [fs EXCEPT !.tmp = Dir(d)]
             /\ pc' = "s_copy"
             /\ UNCHANGED << exc, scratch >>
          \/ /\ Len(files') >= 2
             /\ Cardinality(done) < Len(files')
             /\ pc' = "raised"
             /\ exc' = "ValueError"
             /\ scratch' = FALSE
             /\ UNCHANGED fs
  /\ UNCHANGED << input_file, output_file, argv, encoder_options, program_string,
                  compressed_size, sizes, book, variant, mode, batch, remaining, tmpdir, cwd, tree, nIntr >>

\* copy_files(processed_tmp) of the script.
ScriptCopyFiles ==
  /\ variant = "script" /\ pc = "s_copy"
  /\ fs' = [fs EXCEPT !.tmp = Dir(script_copy_files(tree, @.e))]
  /\ pc' = "s_check"
  /\ UNCHANGED << input_file, output_file, argv, encoder_options, program_string,
                  compressed_size, sizes, book, variant, mode, batch, remaining, exc, tmpdir, scratch, cwd, tree,
                  files, js, pool, nIntr >>

\* check_transcoding(processed_tmp) of the script: the two file counts.
ScriptCheckTranscoding ==
  /\ variant = "script" /\ pc = "s_check"
  /\ IF Cardinality(tree) # Cardinality(fs.tmp.e)
       THEN /\ pc' = "exited" /\ exc' = "SystemExit" /\ scratch' = FALSE
            /\ fs' = [fs EXCEPT !.tmp = Absent]
       ELSE /\ pc' = "s_pack" /\ UNCHANGED << exc, scratch, fs >>
  /\ UNCHANGED << input_file, output_file, argv, encoder_options, program_string,
                  compressed_size, sizes, book, variant, mode, batch, remaining, tmpdir, cwd, tree, files, js,
                  pool, nIntr >>

\* pack with create_comic_archive, then the chdir back.
ScriptPack ==
  /\ variant = "script" /\ pc = "s_pack"
  /\ fs' = [fs EXCEPT ![FinalPath] = Zip(fs.tmp.e), !.tmp = Absent]
  /\ pc' = "returned"
  /\ scratch' = FALSE
  /\ cwd' = "base"
  /\ UNCHANGED << input_file, output_file, argv, encoder_options, program_string,
                  compressed_size, sizes, book, variant, mode, batch, remaining, exc, tmpdir, tree, files, js,
                  pool, nIntr >>

\* ------------------------------------------------------------------ batch
\* A loop that starts the next archive while the pool of the one in flight
\* is still being waited for.
C20_StartEarly ==
  /\ variant = "hardew" /\ batch = "running"
  /\ pc \in {"returned", "skipped", "poll"}
  /\ remaining > 0
  /\ remaining' = remaining - 1
  /\ pc' = "ready"
  /\ fs' \in { FreshFs(d) : d \in (IF overwrite THEN {Absent} ELSE {Absent, Old}) }
  /\ tree' = {}
  /\ files' = << >>
  /\ js' = << >>
  /\ pool' = "none"
  /\ book' = book + 1
  /\ UNCHANGED << input_file, output_file, argv, encoder_options, program_string,
                  compressed_size, sizes, variant, mode, batch, exc, tmpdir,
                  scratch, cwd, nIntr >>

\* The for loop of compress_all_comics goes on to the next archive.
NextBook ==
  /\ variant = "hardew" /\ batch = "running"
  /\ pc \in {"returned", "skipped"}
  /\ remaining > 0
  /\ remaining' = remaining - 1
  /\ pc' = "ready"
  /\ fs' \in { FreshFs(d) : d \in (IF overwrite THEN {Absent} ELSE {Absent, Old}) }
  /\ tree' = {}
  /\ files' = << >>
  /\ js' = << >>
  /\ pool' = "none"
  /\ book' = book + 1
  /\ UNCHANGED << input_file, output_file, argv, encoder_options, program_string,
                  compressed_size, sizes, variant, mode, batch, exc, tmpdir,
                  scratch, cwd, nIntr >>

\* The loop ends after the last archive.
BatchEnd ==
  /\ variant = "hardew" /\ batch = "running"
  /\ pc \in {"returned", "skipped"}
  /\ remaining = 0
  /\ batch' = "finished"
  /\ UNCHANGED << input_file, output_file, argv, encoder_options, program_string,
                  compressed_size, sizes, book, variant, mode, remaining, pc, exc, fs, tmpdir, scratch, cwd, tree,
                  files, js, pool, nIntr >>

Next ==
  \/ Construct
  \/ HardewStart
  \/ PackageBatch
  \/ CompressBegin
  \/ TranscodeBegin
  \/ Dispatch
  \/ PoolClose
  \/ Join
  \/ CopyFiles
  \/ CheckTranscoding
  \/ Move
  \/ Return
  \/ MainInterrupt
  \/ \E i \in Jobs : StartEncoder(i)
  \/ \E i \in Jobs : EncoderOk(i)
  \/ \E i \in Jobs : EncoderFails(i)
  \/ \E i \in Jobs : AcquireLock(i)
  \/ \E i \in Jobs : AppendDone(i)
  \/ \E i \in Jobs : WorkerInterrupt(i)
  \/ \E i \in Jobs : SuccessCallback(i)
  \/ \E i \in Jobs : ErrorCallback(i)
  \/ \E i \in Jobs : KillWorker(i)
  \/ NextBook
  \/ BatchEnd
  \/ ScriptBegin
  \/ ScriptTranscode
  \/ ScriptCopyFiles
  \/ ScriptCheckTranscoding
  \/ ScriptPack

Spec == Init /\ [][Next]_vars

\* ------------------------------------------------- the batch's accounting
\* compress_all_comics of compress_comics_TheHardew with each compress_comic
\* call taken as one step: what the call leaves on disk, the name it returns
\* and the size the loop adds for it.

\* os.path.getsize: the source archives are larger than anything written
\* here; an archive written here weighs one unit per entry.
SizeOf(c) ==
  CASE c.k = "orig" -> 7
    [] c.k = "old" -> 6
    [] c.k = "zip" -> Cardinality(c.e)
    [] OTHER -> 0

\* A transcode that hands back the source's name without having moved
\* anything onto it.
C24_ReturnsSource == "src"

\* The name transcode returns when it has run to its end.
hardew_compressed_name ==
  IF EqualsText(overwrite, "True") THEN "src"
  ELSE IF EqualsText(overwrite_destination, "True") THEN "dest"
  ELSE WriteTarget

\* The archive a complete run writes for the extracted tree t.
Written(t) ==
  Zip({ JxlEntry(f) : f \in { g \in t : IsTranscodable(g) } } \cup copy_files_entries(t))

RECURSIVE SumSeq(_)
SumSeq(q) == IF q = << >> THEN 0 ELSE Head(q) + SumSeq(Tail(q))

BatchInit ==
  /\ variant = "hardew"
  /\ mode \in Modes
  /\ batch = "running"
  /\ remaining \in 0..MaxBooks
  /\ book = 1
  /\ compressed_size = 0
  /\ sizes = << >>
  /\ pc = "start"
  /\ exc = "none"
  /\ fs \in { FreshFs(d) : d \in (IF overwrite THEN {Absent} ELSE {Absent, Old}) }
  /\ tmpdir = FALSE
  /\ scratch = FALSE
  /\ cwd = "base"
  /\ tree = {}
  /\ files = << >>
  /\ js = << >>
  /\ pool = "none"
  /\ nIntr = 0
  /\ NoSetup

\* A skipped archive that adds nothing to the aggregate.
C27_SkippedCountsNothing == SizeOf(Absent)

\* getsize(book): what the loop adds when compress_comic returned ''.
book_size == SizeOf(fs.src)

\* The jobs of a call that raised: it raised before the dispatch loop, or
\* pool.terminate() of the except branch has left no worker alive.
AbortedJobs(n) == { [i \in 1..n |-> s] : s \in {"new", "killed"} }

\* The trees left in the scratch directory once an archive is unpacked and
\* cleaned.
CleanedTrees == { clean_tmp_dir(a) : a \in Archives }

\* One turn of the for loop: compress_comic(book, ...), then
\* compressed_size += getsize(compressed_name if compressed_name else book).
BatchBook ==
  /\ batch = "running" /\ remaining > 0
  /\ \E t \in CleanedTrees : \E raises \in BOOLEAN :
       LET made == IF overwrite \/ overwrite_destination
                 THEN [fs EXCEPT !.tmp = Empty] ELSE fs
           written == [made EXCEPT ![WriteTarget] = Written(t)]
           after == hardew_moves(written)
       IN /\ tree' = t
          /\ files' = hardew_files(t)
          /\ IF hardew_get_output_filename_raises
               THEN /\ compressed_size' = compressed_size + book_size
                    /\ sizes' = Append(sizes, book_size)
                    /\ js' = [i \in 1..Len(files') |-> "new"]
                    /\ pc' = "skipped"
                    /\ UNCHANGED << batch, exc >>
             ELSE IF raises \/ ~Exists(after[hardew_compressed_name])
               THEN /\ pc' = "raised"
                    /\ js' \in AbortedJobs(Len(files'))
                    /\ exc' = IF raises THEN "RuntimeError" ELSE "FileNotFoundError"
                    /\ batch' = "aborted"
                    /\ UNCHANGED << compressed_size, sizes >>
             ELSE /\ compressed_size' =
                       compressed_size + SizeOf(after[hardew_compressed_name])
                  /\ sizes' = Append(sizes, SizeOf(written[WriteTarget]))
                  /\ js' = [i \in 1..Len(files') |-> "counted"]
                  /\ pc' = "returned"
                  /\ UNCHANGED << batch, exc >>
  /\ remaining' = remaining - 1
  /\ book' = book + 1
  /\ fs' \in { FreshFs(d) : d \in (IF overwrite THEN {Absent} ELSE {Absent, Old}) }
  /\ UNCHANGED << input_file, output_file, argv, encoder_options, program_string,
                  variant, mode, tmpdir, scratch, cwd, pool, nIntr >>

\* The loop has run out of books: the bar is closed with the aggregate.
BatchFinish ==
  /\ batch = "running" /\ remaining = 0
  /\ batch' = "finished"
  /\ UNCHANGED << input_file, output_file, argv, encoder_options, program_string,
                  compressed_size, sizes, book, variant, mode, remaining, pc, exc,
                  fs, tmpdir, scratch, cwd, tree, files, js, pool, nIntr >>

BatchNext == BatchBook \/ BatchFinish

SpecBatch == BatchInit /\ [][BatchNext]_vars

\* ------------------------------------------------------- termination
\* One call of ComicCompressor.compress with no KeyboardInterrupt: the
\* orchestrating process, the pool's workers and its result handler all
\* keep running, every encoder exits, and pool.terminate() kills every
\* worker that is still alive.
LiveInit == Init /\ variant = "class"

LiveNext ==
  \/ Construct
  \/ CompressBegin
  \/ TranscodeBegin
  \/ Dispatch
  \/ PoolClose
  \/ Join
  \/ CopyFiles
  \/ CheckTranscoding
  \/ Move
  \/ Return
  \/ \E i \in Jobs : StartEncoder(i)
  \/ \E i \in Jobs : EncoderOk(i)
  \/ \E i \in Jobs : EncoderFails(i)
  \/ \E i \in Jobs : AcquireLock(i)
  \/ \E i \in Jobs : AppendDone(i)
  \/ \E i \in Jobs : SuccessCallback(i)
  \/ \E i \in Jobs : ErrorCallback(i)
  \/ \E i \in Jobs : KillWorker(i)

LiveSpec == LiveInit /\ [][LiveNext]_vars /\ WF_vars(LiveNext)

\* ------------------------------------------------------- output names
\* The archives a scan may find, as paths relative to the scan root.
InputBooks ==
  { P(d, s, e) : d \in {"", "sub", "sub/deep"}, s \in {"x", "y"},
                 e \in {".cbz", ".cbr", ".CBR"} }

\* A resolved name: the root it hangs from and the path below it.
Name(r, f) == [root |-> r, dir |-> f.dir, stem |-> f.stem, ext |-> f.ext]

\* ComicCompressor.__get_output_filename: the input file itself with -o,
\* otherwise output_directory / relative parent / with_suffix('.cbz').name.
get_output_filename(f) ==
  IF overwrite THEN Name("working_directory", f)
  ELSE Name("output_directory", with_suffix(f, ".cbz"))

\* get_output_name of compress_comics.py.
get_output_name(f) == Name("output_directory", with_suffix(f, ".cbz"))

\* get_output_name raises FileExistsError.
get_output_name_raises == Exists(fs.dest) /\ ~overwrite

NamesInit ==
  /\ variant \in {"class", "package"}
  /\ mode \in (IF variant = "package" THEN Modes \ {"overwrite_destination"} ELSE Modes)
  /\ input_file \in InputBooks
  /\ output_file = "none"
  /\ argv = "none"
  /\ encoder_options = "none"
  /\ program_string = << >>
  /\ batch = "none"
  /\ remaining = 0
  /\ book = 1
  /\ compressed_size = 0
  /\ sizes = << >>
  /\ pc = "start"
  /\ exc = "none"
  /\ fs \in { FreshFs(d) : d \in (IF overwrite THEN {Absent} ELSE {Absent, Old}) }
  /\ tmpdir = FALSE
  /\ scratch = FALSE
  /\ cwd = "base"
  /\ tree = {}
  /\ files = << >>
  /\ js = << >>
  /\ pool = "none"
  /\ nIntr = 0

\* The output name of one archive is resolved: __get_output_filename in
\* ComicCompressor.__init__, get_output_name in find_input_files.
ResolveName ==
  /\ pc = "start"
  /\ IF (variant = "class" /\ get_output_filename_raises)
          \/ (variant = "package" /\ get_output_name_raises)
       THEN /\ pc' = "rejected"
            /\ exc' = "FileExistsError"
            /\ output_file' = output_file
       ELSE /\ pc' = "resolved"
            /\ exc' = exc
            /\ output_file' = IF variant = "class" THEN get_output_filename(input_file)
                                                   ELSE get_output_name(input_file)
  /\ UNCHANGED << input_file, argv, encoder_options, program_string,
                  compressed_size, sizes, book, variant, mode, batch, remaining, fs,
                  tmpdir, scratch, cwd, tree, files, js, pool, nIntr >>

NamesNext == ResolveName

SpecNames == NamesInit /\ [][NamesNext]_vars

\* ---------------------------------------------------- encoder options
\* An option that was not given is << >> (None), a given one is << v >>.
None == << >>

Digits == << "0", "1", "2", "3", "4", "5", "6", "7", "8", "9" >>

RECURSIVE str(_)
str(n) == IF n < 10 THEN Digits[n + 1] ELSE str(n \div 10) \o Digits[(n % 10) + 1]

\* str() of a float holding a whole number.
str_float(n) == str(n) \o ".0"

\* The command lines tried: each option absent or given with one value.
CommandLines ==
  [ threads : {None} \cup { <<t>> : t \in 0..(CpuCount + 1) },
    output_directory : {None, <<"out">>},
    overwrite : BOOLEAN,
    effort : {None, <<7>>},
    modular : {None, <<1>>},
    num_threads : {None, <<2>>},
    distance : {None, <<0>>, <<1>>},
    quality : {None, <<90>>} ]

\* The attributes of the 'cjxl options' namespace, in the order vars() lists them.
encoder_args_order ==
  << "effort", "modular_nb_prev_channels", "brotli_effort", "lossless_jpeg",
     "modular", "num_threads", "distance", "quality" >>

\* --threads, with its default mp.cpu_count().
threads_of(a) == IF a.threads = None THEN CpuCount ELSE a.threads[1]

\* mp.cpu_count() // program_args.threads
default_num_threads(a) == CpuCount \div threads_of(a)

\* parse_args: defaults filled in (lossless_jpeg 1, distance 0, num_threads
\* cpu_count // threads); quality is a float. Each value is kept as the
\* text str() gives for it in _transcode_file.
parse_args(a) ==
  [ effort |-> IF a.effort = None THEN None ELSE <<str(a.effort[1])>>,
    modular_nb_prev_channels |-> None,
    brotli_effort |-> None,
    lossless_jpeg |-> <<"1">>,
    modular |-> IF a.modular = None THEN None ELSE <<str(a.modular[1])>>,
    num_threads |->
      IF a.num_threads # None THEN <<str(a.num_threads[1])>>
      ELSE <<str(default_num_threads(a))>>,
    distance |-> IF a.distance = None THEN <<"0">> ELSE <<str(a.distance[1])>>,
    quality |-> IF a.quality = None THEN None ELSE <<str_float(a.quality[1])>> ]

\* argparse refuses two options of one mutually exclusive group.
usage_error(a) == a.distance # None /\ a.quality # None

\* parse_args raises ValueError: output into the current directory without -o.
needs_overwrite(a) == a.output_directory = None /\ ~a.overwrite

\* The loop of _transcode_file over vars(encoder_options).
RECURSIVE option_words(_, _)
option_words(o, k) ==
  IF k > Len(encoder_args_order) THEN << >>
  ELSE LET arg == encoder_args_order[k]
           value == o[arg]
       IN (IF value # None THEN << "--" \o arg, value[1] >> ELSE << >>)
            \o option_words(o, k + 1)

ArgsInit ==
  /\ argv \in CommandLines
  /\ encoder_options = "none"
  /\ program_string = << >>
  /\ input_file = "none"
  /\ output_file = "none"
  /\ variant = "class"
  /\ mode = (IF argv.overwrite THEN "overwrite" ELSE "new_directory")
  /\ batch = "none"
  /\ remaining = 0
  /\ book = 1
  /\ compressed_size = 0
  /\ sizes = << >>
  /\ pc = "start"
  /\ exc = "none"
  /\ fs = FreshFs(Absent)
  /\ tmpdir = FALSE
  /\ scratch = FALSE
  /\ cwd = "base"
  /\ tree = {}
  /\ files = << >>
  /\ js = << >>
  /\ pool = "none"
  /\ nIntr = 0

\* parse_args of argument_parser.py on one command line.
ParseArgs ==
  /\ pc = "start"
  /\ IF usage_error(argv)
       THEN pc' = "usage" /\ exc' = "SystemExit" /\ encoder_options' = encoder_options
       ELSE IF needs_overwrite(argv)
         THEN pc' = "raised" /\ exc' = "ValueError" /\ encoder_options' = encoder_options
       ELSE IF argv.num_threads = None /\ threads_of(argv) = 0
         THEN pc' = "raised" /\ exc' = "ZeroDivisionError"
              /\ encoder_options' = encoder_options
         ELSE pc' = "parsed" /\ exc' = exc /\ encoder_options' = parse_args(argv)
  /\ UNCHANGED << input_file, output_file, argv, program_string,
                  compressed_size, sizes, book, variant, mode, batch, remaining, fs,
                  tmpdir, scratch, cwd, tree, files, js, pool, nIntr >>

\* _transcode_file builds the encoder's argument list for one image.
BuildProgramString ==
  /\ pc = "parsed"
  /\ program_string' = << "cjxl" >> \o option_words(encoder_options, 1)
                          \o << "a.jpg", "/dev/stdout" >>
  /\ pc' = "built"
  /\ UNCHANGED << input_file, output_file, argv, encoder_options, exc,
                  compressed_size, sizes, book, variant, mode, batch, remaining, fs,
                  tmpdir, scratch, cwd, tree, files, js, pool, nIntr >>

ArgsNext == ParseArgs \/ BuildProgramString

SpecArgs == ArgsInit /\ [][ArgsNext]_vars

\* ------------------------------------------------------ the input scan
\* compress_all_comics of src/src/compress_comics. Paths are relative to the
\* working directory; a directory is the sequence of its components.
DiskFiles ==
  { P(d, st, e) : d \in {<< >>, <<"out">>}, st \in {"A", "B"}, e \in {".cbr", ".cbz"} }

\* The archives on disk when the batch starts.
Disks == { t \in SUBSET DiskFiles : Cardinality(t) <= MaxFiles }

IsPrefix(d, e) == Len(d) <= Len(e) /\ SubSeq(e, 1, Len(d)) = d

\* d in file.parents
InParents(d, f) == IsPrefix(d, f.dir)

\* The INPUT arguments: directories and files that exist.
InputPaths(t) ==
  { [kind |-> "dir", dir |-> d] : d \in {<< >>, <<"out">>} }
    \cup { [kind |-> "file", file |-> f] : f \in t }

InputLists(t) ==
  UNION { [1..n -> InputPaths(t)] : n \in 1..MaxInputs }

\* The absolute output path of a resolved name.
resolve(n, a) == P(a.output_directory \o n.dir, n.stem, n.ext)

\* sorted(input_path.rglob('*.*'), key=lambda x: len(x.parents)): the files
\* below the directory in any order the file system gives, shallower first.
ScanOrders(t, d) ==
  LET below == { f \in t : InParents(d, f) }
      n == Cardinality(below)
  IN { o \in [1..n -> below] :
         /\ \A i, j \in 1..n : i # j => o[i] # o[j]
         /\ \A i, j \in 1..n : i < j => Len(o[i].dir) <= Len(o[j].dir) }

\* A resolution that takes a file without looking whether its output exists.
C34_TakeUnchecked(f, acc, t, a) ==
  LET o == resolve(get_output_name(f), a)
  IN [acc EXCEPT !.outputs = @ \cup {o},
                 !.books = Append(@, [input |-> f, output |-> o])]

\* One file taken into the list: get_output_name, the exists test, then
\* outputs.add and comic_books.append.
take(f, acc, t, a) ==
  LET o == resolve(get_output_name(f), a)
  IN IF o \in t /\ ~a.overwrite
       THEN [acc EXCEPT !.raised = TRUE]
       ELSE [acc EXCEPT !.outputs = @ \cup {o},
                        !.books = Append(@, [input |-> f, output |-> o])]

\* The inner loop of find_input_files over one scanned directory.
RECURSIVE scan(_, _, _, _, _)
scan(o, k, acc, t, a) ==
  IF k > Len(o) \/ acc.raised THEN acc
  ELSE LET f == o[k]
       IN IF /\ f.ext \in {".cbr", ".cbz"}
             /\ f \notin acc.outputs
             /\ (a.overwrite \/ ~InParents(a.output_directory, f))
            THEN scan(o, k + 1, take(f, acc, t, a), t, a)
            ELSE scan(o, k + 1, acc, t, a)

\* find_input_files: the outer loop over INPUT; ord gives the scan order of
\* each directory.
RECURSIVE find_input_files(_, _, _, _, _)
find_input_files(k, acc, t, a, ord) ==
  IF k > Len(a.INPUT) \/ acc.raised THEN acc
  ELSE LET p == a.INPUT[k]
       IN IF p.kind = "file"
            THEN find_input_files(k + 1, take(p.file, acc, t, a), t, a, ord)
            ELSE find_input_files(k + 1, scan(ord[p.dir], 1, acc, t, a), t, a, ord)

PackageInit ==
  /\ variant = "package"
  /\ tree \in Disks
  /\ argv \in { [overwrite |-> o, output_directory |-> d, INPUT |-> i] :
                  o \in BOOLEAN, d \in {<< >>, <<"out">>}, i \in InputLists(tree) }
  /\ mode = (IF argv.overwrite THEN "overwrite" ELSE "new_directory")
  /\ files = << >>
  /\ pc = "start"
  /\ exc = "none"
  /\ batch = "none"
  /\ remaining = 0
  /\ book = 1
  /\ compressed_size = 0
  /\ sizes = << >>
  /\ input_file = "none"
  /\ output_file = "none"
  /\ encoder_options = "none"
  /\ program_string = << >>
  /\ fs = FreshFs(Absent)
  /\ tmpdir = FALSE
  /\ scratch = FALSE
  /\ cwd = "base"
  /\ js = << >>
  /\ pool = "none"
  /\ nIntr = 0

\* parse_args: output into the working directory needs -o.
PackageParse ==
  /\ pc = "start"
  /\ IF argv.output_directory = << >> /\ ~argv.overwrite
       THEN pc' = "raised" /\ exc' = "ValueError"
       ELSE pc' = "parsed" /\ exc' = exc
  /\ UNCHANGED << input_file, output_file, argv, encoder_options, program_string,
                  compressed_size, sizes, book, variant, mode, batch, remaining, fs,
                  tmpdir, scratch, cwd, tree, files, js, pool, nIntr >>

\* comic_books = find_input_files(prog_args, directory)
FindInputFiles ==
  /\ pc = "parsed"
  /\ \E top \in ScanOrders(tree, << >>) : \E sub \in ScanOrders(tree, <<"out">>) :
          LET ord == [d \in {<< >>, <<"out">>} |-> IF d = << >> THEN top ELSE sub]
              r == find_input_files(1, [books |-> << >>, outputs |-> {}, raised |-> FALSE],
                                    tree, argv, ord)
          IN IF r.raised
               THEN pc' = "raised" /\ exc' = "FileExistsError" /\ files' = files
                    /\ batch' = batch
               ELSE pc' = "listed" /\ exc' = exc /\ files' = r.books
                    /\ batch' = "running"
  /\ UNCHANGED << input_file, output_file, argv, encoder_options, program_string,
                  compressed_size, sizes, book, variant, mode, remaining, fs,
                  tmpdir, scratch, cwd, tree, js, pool, nIntr >>

\* The first turn of the for loop: ComicCompressor(book, output_book,
\* enc_args, cjxl_path, prog_args.threads) gives five arguments to an
\* __init__ that takes four, and nothing catches the TypeError.
PackageFirstBook ==
  /\ pc = "listed" /\ batch = "running"
  /\ Len(files) > 0
  /\ pc' = "raised"
  /\ exc' = "TypeError"
  /\ batch' = "aborted"
  /\ UNCHANGED << input_file, output_file, argv, encoder_options, program_string,
                  compressed_size, sizes, book, variant, mode, remaining, fs,
                  tmpdir, scratch, cwd, tree, files, js, pool, nIntr >>

\* The for loop over an empty list.
PackageNoBooks ==
  /\ pc = "listed" /\ batch = "running"
  /\ Len(files) = 0
  /\ batch' = "finished"
  /\ UNCHANGED << input_file, output_file, argv, encoder_options, program_string,
                  compressed_size, sizes, book, variant, mode, remaining, pc, exc, fs,
                  tmpdir, scratch, cwd, tree, files, js, pool, nIntr >>

PackageNext == PackageParse \/ FindInputFiles \/ PackageFirstBook \/ PackageNoBooks

SpecPackage == PackageInit /\ [][PackageNext]_vars

\* ----------------------------------------------------------------- claims
Pipeline == {"class", "hardew"}
Unsupported(f) == ~IsTranscodable(f) /\ ~IsPassthrough(f)

\* The archive entry name a file of the tree is meant to produce.
ExpectedName(f) == IF IsTranscodable(f) THEN with_suffix(f, ".jxl") ELSE f

\* An encoder invocation of the archive in flight exited non-zero.
EncoderFailed == \E i \in Jobs : js[i] \in {"raised", "failed"}

\* Where the archive a successful run hands back is found.
OutputPath == IF variant = "class" THEN FinalPath ELSE WriteTarget

\* Every image and passthrough file of the tree has its entry in c.
Complete(c) ==
  /\ c.k = "zip"
  /\ \A f \in tree :
       /\ IsTranscodable(f) => JxlEntry(f) \in c.e
       /\ IsPassthrough(f) => RawEntry(f) \in c.e

\* C1: every terminal state of ComicCompressor.compress, whatever the order
\* of worker completions and failures, is either a placed output holding
\* exactly one .jxl-swapped entry for every transcodable image of the tree,
\* or a raised compress with nothing placed at the final path.
C1_AllImagesOrNothing ==
  (variant = "class" /\ nIntr = 0 /\ pc \in {"returned", "raised", "rejected"}) =>
    \/ /\ pc = "returned"
       /\ fs[FinalPath].k = "zip"
       /\ \A f \in tree : IsTranscodable(f) =>
            Cardinality({ x \in fs[FinalPath].e : x.name = with_suffix(f, ".jxl") }) = 1
    \/ /\ pc \in {"raised", "rejected"}
       /\ fs[FinalPath].k # "zip"

\* C2: in new-directory mode, once an encoder invocation has exited
\* non-zero, the end of compress leaves no file at the destination and no
\* '.compressed_books*' directory, whether the failure came during dispatch
\* or after it.
C2_FailedEncodeLeavesNothing ==
  (variant = "class" /\ mode = "new_directory" /\ nIntr = 0 /\ EncoderFailed
     /\ pc \in {"returned", "raised"}) =>
    (~Exists(fs.dest) /\ ~tmpdir /\ ~Exists(fs.tmp))

\* C3: the completion verifier raises whenever an expected entry (the
\* .jxl-swapped path of an image, the unchanged path of a passthrough file)
\* is missing from the written archive: it lets the run go on to the move
\* only when every expected name is in the archive's name list.
C3_VerifierCatchesMissing ==
  (variant \in Pipeline /\ pc = "move") =>
    \A f \in tree :
      (IsTranscodable(f) \/ IsPassthrough(f)) =>
        ExpectedName(f) \in namelist(fs[WriteTarget])

\* C4: in every placement mode of ComicCompressor the source and destination
\* paths are changed by one step only, the move at the end of __transcode,
\* which puts the temporary archive, finished (pool drained, passthrough
\* copied, verifier returned), onto the final path; worker appends and the
\* passthrough copy write only to the temporary file inside the
\* '.compressed_books*' directory.
C4_OnlyTheMovePlaces ==
  [][ variant = "class" =>
        /\ (fs'.src # fs.src \/ fs'.dest # fs.dest) =>
              /\ pc = "move" /\ pc' = "placed"
              /\ Running = {}
              /\ fs.tmp.k = "zip"
              /\ fs' = [fs EXCEPT ![FinalPath] = fs.tmp, !.tmp = Absent]
        /\ (fs'.tmp # fs.tmp /\ Exists(fs'.tmp)) => (tmpdir /\ tmpdir')
    ]_vars

\* C4 witness: an archive with entries has been moved onto the final path.
C4_Witness ==
  /\ variant = "class" /\ pc = "placed"
  /\ fs[FinalPath].k = "zip" /\ fs[FinalPath].e # {}
  /\ \E i \in Jobs : js[i] = "counted"

\* C5: a compression that completes successfully on a tree of N
\* transcodable images and M passthrough files yields an archive whose names
\* are exactly the N swapped paths and the M unchanged paths, N+M entries.
C5_SuccessIsComplete ==
  (variant \in Pipeline /\ nIntr = 0 /\ pc = "returned"
     /\ \A f \in tree : ~Unsupported(f)) =>
    /\ namelist(fs[OutputPath]) = { ExpectedName(f) : f \in tree }
    /\ Cardinality(fs[OutputPath].e) = Cardinality(tree)

\* C6: after the passthrough copy every passthrough file of the tree, at any
\* depth, is in the output at its own relative path with its own bytes, in
\* the archive-appending copy and in the script's copy into processed_dir.
C6_PassthroughKeepsPath ==
  /\ (variant \in Pipeline /\ pc \in {"verify", "move"}) =>
       \A f \in tree : IsPassthrough(f) => RawEntry(f) \in fs[WriteTarget].e
  /\ (variant = "script" /\ pc \in {"s_check", "s_pack"}) =>
       \A f \in tree : IsPassthrough(f) => RawEntry(f) \in fs.tmp.e

\* C7: when the cleaned tree holds a file of an unsupported extension,
\* ComicCompressor.compress starts no encoder subprocess and creates no file
\* at the destination.
C7_UnsupportedBeforeEncoding ==
  (variant = "class" /\ \E f \in tree : Unsupported(f)) =>
    (Launches = 0 /\ fs[FinalPath].k # "zip")

\* C8: in new-directory mode with a file already at the destination and no
\* overwrite flag, output resolution fails with FileExistsError and no job
\* is dispatched and no encoder launched for that archive.
C8_ExistingDestinationRejected ==
  /\ (variant = "class" /\ mode = "new_directory" /\ fs.dest = Old /\ pc # "start") =>
       /\ pc = "rejected" /\ exc = "FileExistsError"
       /\ pool = "none" /\ js = << >> /\ Launches = 0
  /\ (variant = "hardew" /\ mode = "new_directory" /\ fs.dest = Old) =>
       /\ pc \in {"start", "ready", "unpacked", "skipped", "raised"}
       /\ pc = "raised" => exc = "KeyboardInterrupt"
       /\ \A i \in Jobs : js[i] = "new"
       /\ Launches = 0

\* C8 witness: resolution has rejected an archive whose destination exists.
C8_Witness ==
  /\ variant = "class" /\ mode = "new_directory"
  /\ fs.dest = Old /\ pc = "rejected" /\ exc = "FileExistsError"

\* C9: a per-archive failure other than a user interrupt does not abort the
\* batch: no batch is ended by the failed compression of one archive while
\* later archives are left unattempted.
C9_FailureDoesNotAbortBatch ==
  (batch = "aborted" /\ pool # "none"
     /\ exc \in {"FileExistsError", "RuntimeError", "ValueError"}) =>
    remaining = 0

\* C10: in overwrite-source mode of ComicCompressor the source path always
\* holds the original archive or the complete, verified replacement; after
\* success the replacement is there and no temporary file or directory
\* remains; after a failed run the original is unchanged.
C10_SourceOriginalOrComplete ==
  (variant = "class" /\ overwrite /\ nIntr = 0) =>
    /\ fs.src = Orig \/ Complete(fs.src)
    /\ pc = "returned" => (fs.src.k = "zip" /\ ~tmpdir /\ ~Exists(fs.tmp))
    /\ pc = "raised" => fs.src = Orig

\* C11: in transcode of compress_comics_TheHardew, when the overwrite flag
\* (the overwrite-destination flag) is set and the jobs, the passthrough copy
\* and the verification have succeeded, the hidden temporary archive has been
\* moved onto the source path (the destination path): the final path holds
\* the new archive and the hidden temporary file is gone.
C11_HardewMovesOntoFinalPath ==
  (variant = "hardew" /\ (overwrite \/ overwrite_destination)
     /\ pc \in {"placed", "returned"}) =>
    (fs[FinalPath].k = "zip" /\ ~Exists(fs.tmp))

\* The final path holds what it held before compress was called.
AsBeforeCall(c) == IF overwrite THEN c = Orig ELSE c \in {Absent, Old}

\* The steps of __transcode from the dispatch loop to the move.
BeforeMove == {"dispatch", "poll", "copy", "verify", "move"}

\* C12 as stated: whenever ComicCompressor.__transcode exits by raising
\* (during dispatch, copy or verification, or on an interrupt), the
\* '.compressed_books*' directory and the temporary archive are gone, the
\* final path holds what it held before the call, and the exception goes on
\* to the caller of compress.
C12_RaiseLeavesNothing ==
  [][ (variant = "class" /\ pc \in BeforeMove \cup {"placed"} /\ pc' = "raised") =>
        /\ ~tmpdir' /\ ~Exists(fs'.tmp)
        /\ AsBeforeCall(fs'[FinalPath])
        /\ exc' # "none" /\ ~scratch' /\ cwd' = "base"
    ]_vars

\* C12 amended: whenever ComicCompressor.__transcode exits by raising before
\* its move has run, the '.compressed_books*' directory and the temporary
\* archive are gone, the final path holds what it held before the call, and
\* the exception goes on to the caller of compress. A raise after the move
\* (an interrupt between the move and the return) removes the temporary
\* directory and leaves the new archive at the final path.
C12_RaiseBeforeMoveLeavesNothing ==
  [][ /\ (variant = "class" /\ pc \in BeforeMove /\ pc' = "raised") =>
           /\ ~tmpdir' /\ ~Exists(fs'.tmp)
           /\ AsBeforeCall(fs'[FinalPath])
           /\ exc' # "none" /\ ~scratch' /\ cwd' = "base"
      /\ (variant = "class" /\ pc = "placed" /\ pc' = "raised") =>
           /\ ~tmpdir' /\ ~Exists(fs'.tmp)
           /\ fs'[FinalPath] = fs[FinalPath]
           /\ exc' = "KeyboardInterrupt"
    ]_vars

\* C12 witness: verification has raised with workers' entries already in the
\* temporary archive; nothing of the run is left.
C12_Witness ==
  /\ variant = "class" /\ pc = "raised" /\ exc = "RuntimeError"
  /\ \E i \in Jobs : js[i] = "counted"
  /\ ~tmpdir /\ ~Exists(fs.tmp) /\ AsBeforeCall(fs[FinalPath])

\* C13: at most one worker is inside the archive-append critical section
\* (open the archive, write the entry, close the archive) at any time: no two
\* appends to the shared temporary archive overlap, whatever the interleaving
\* of the pool's workers.
C13_OneAppendAtATime ==
  Cardinality({ i \in Jobs : js[i] = "writing" }) <= 1

\* C13 witness: one worker is inside the append while another, its encoder
\* finished, waits for the lock.
C13_Witness ==
  /\ variant = "class"
  /\ \E i \in Jobs : \E j \in Jobs :
       i # j /\ js[i] = "writing" /\ js[j] = "encoded"

\* C14: every mutation of the output archive, each worker append and the
\* orchestrator's passthrough copy alike, is performed while the archive lock
\* is held: no step adds entries to the written archive with the lock free.
C14_MutationsUnderLock ==
  [][ (variant \in Pipeline /\ fs'[WriteTarget].e \ fs[WriteTarget].e # {}) =>
        LockHeld
    ]_vars

\* The steps of __transcode / transcode after pool.join().
AfterDrain == {"copy", "verify", "move", "placed"}

\* C15: the passthrough copy and the verification start only after the pool
\* has drained: when the copy begins no worker of the archive is running,
\* and from then on no worker changes state and nothing but the copy itself
\* adds to the written archive, also when the error handler terminated the
\* pool.
C15_CopyAfterDrain ==
  [][ (variant \in Pipeline) =>
        ( /\ (pc' \in AfterDrain) => (Running' = {})
          /\ (pc \in AfterDrain) => (js' = js)
          /\ (pc \in AfterDrain /\ fs'[WriteTarget].e # fs[WriteTarget].e) =>
               (fs'[WriteTarget].e = {} \/ (pc = "copy" /\ pc' = "verify")) )
    ]_vars

\* C15 witness: the copy begins on a pool the error handler terminated while
\* another worker was running; that worker is dead.
C15_Witness ==
  /\ variant = "class" /\ pc = "copy" /\ pool = "terminated"
  /\ \E i \in Jobs : js[i] = "failed"
  /\ \E i \in Jobs : js[i] = "killed"

\* C16: once the encoder of one job of an archive has exited non-zero, no
\* job of that archive that had not yet started its encoder ever starts one.
C16_NoStartAfterFailure ==
  [][ \A i \in Jobs :
        (variant \in Pipeline /\ EncoderFailed /\ js[i] \in {"new", "queued"}
           /\ i \in DOMAIN js') =>
          (js'[i] # "encoding")
    ]_vars

\* The entries job i can put into the archive.
EntriesOf(i) == {JxlEntry(files[i]), CutEntry(files[i])}

\* C17: a worker appends an entry only if its own encoder invocation exited
\* with status zero: an entry of a job enters the archive only in a step of
\* that job's append, the append is entered only after the encoder returned
\* with status zero, and the archive never holds an entry of a job whose
\* encoder failed.
C17_AppendOnlyAfterEncoderOk ==
  [][ \A i \in Jobs :
        (variant \in Pipeline /\ files' = files) =>
          ( /\ (EntriesOf(i) \cap (fs'[WriteTarget].e \ fs[WriteTarget].e) # {}) =>
                 (js[i] = "writing")
            /\ (js'[i] = "writing" /\ js[i] # "writing") => (js[i] = "encoded")
            /\ (js'[i] = "encoded" /\ js[i] # "encoded") =>
                 (js[i] = "encoding" /\ fs' = fs)
            /\ (js'[i] \in {"raised", "failed"}) =>
                 (EntriesOf(i) \cap fs'[WriteTarget].e = {}) )
    ]_vars

\* C17 witness: one job's encoder has failed and another job's entry is in
\* the archive.
C17_Witness ==
  /\ variant = "class"
  /\ \E i \in Jobs : \E j \in Jobs :
       js[i] = "failed" /\ JxlEntry(files[j]) \in fs[WriteTarget].e

\* C18: when a user interrupt or a pool shutdown comes while a worker is
\* inside the locked append, that append completes as a unit: in no reachable
\* state is the written archive left with an entry half-written, be it an
\* archive cut off before its index or a member without its data.
C18_AppendIsAtomic ==
  variant \in Pipeline =>
    /\ fs[WriteTarget] # Torn
    /\ \A i \in Jobs : CutEntry(files[i]) \notin fs[WriteTarget].e

\* C19: a user interrupt that arrives while an archive is being compressed
\* is fatal for the whole batch, whichever process observes it: the archive
\* in flight is not placed afterwards and its compression does not return
\* normally, no later archive is started, the batch does not run to its end,
\* and the run ends with the KeyboardInterrupt raised and the scratch
\* directory and the temporary output directory removed. Stated for
\* runs in which the interrupt is the only trouble: supported files only, no
\* encoder failure.
C19_InterruptIsFatal ==
  (variant \in Pipeline /\ nIntr > 0 /\ ~EncoderFailed
     /\ \A f \in tree : ~Unsupported(f)) =>
    /\ pc \notin {"placed", "returned", "skipped", "ready"}
    /\ batch # "finished"
    /\ pc = "raised" =>
         (exc = "KeyboardInterrupt" /\ ~tmpdir /\ ~scratch /\ cwd = "base")

\* The steps in which a compression has its pool and its temporary output.
InFlight == {"dispatch", "poll", "copy", "verify", "move", "placed"}

\* C20: archives are processed strictly one after another: the compression
\* of archive i+1 starts only after that of archive i has ended (returned or
\* skipped, no worker alive, its pool shut down, scratch and temporary
\* directories gone, back in the base directory), and a live pool or a
\* running worker belongs to the one compression in flight.
C20_OneArchiveAtATime ==
  [][ /\ (book' # book) =>
           ( /\ book' = book + 1 /\ remaining' = remaining - 1
             /\ pc \in {"returned", "skipped"} /\ pc' = "ready"
             /\ Running = {} /\ pool \notin {"run", "closed"}
             /\ ~scratch /\ ~tmpdir /\ cwd = "base"
             /\ pool' = "none" /\ js' = << >> )
      /\ (pool' \in {"run", "closed"} \/ Running' # {}) => (pc' \in InFlight)
    ]_vars

\* C20 witness: the second archive of a batch is in flight, its pool running
\* and a worker encoding.
C20_Witness ==
  /\ variant = "hardew" /\ book = 2 /\ pc = "dispatch" /\ pool = "run"
  /\ \E i \in Jobs : js[i] = "encoding"

\* C21: the move onto the final path is executed only after, in this order,
\* the pool has been joined, the passthrough copy has finished and the
\* verification has returned without raising: the move is reached from the
\* verification alone, the verification from the copy alone, the copy from
\* the join alone; when the move runs no worker is alive, the passthrough
\* entries are in the archive and the verifier does not raise on it; and a
\* run whose verification raised never places anything.
C21_MoveAfterJoinCopyVerify ==
  [][ (variant = "class") =>
        ( /\ (pc' = "copy" /\ pc # "copy") => (pc = "poll" /\ Running = {})
          /\ (pc' = "verify" /\ pc # "verify") =>
               (pc = "copy" /\ copy_files_entries(tree) \subseteq fs'.tmp.e)
          /\ (pc' = "move" /\ pc # "move") =>
               (pc = "verify" /\ ~check_transcoding_raises(tree, namelist(fs.tmp)))
          /\ (pc' = "placed" /\ pc # "placed") =>
               ( /\ pc = "move" /\ Running = {}
                 /\ copy_files_entries(tree) \subseteq fs.tmp.e
                 /\ ~check_transcoding_raises(tree, namelist(fs.tmp))
                 /\ fs'[FinalPath] = fs.tmp )
          /\ (pc = "raised") => (pc' = "raised" /\ fs' = fs) )
    ]_vars

\* C21 witness: an archive with a worker's entry and a passthrough entry has
\* been placed.
C21_Witness ==
  /\ variant = "class" /\ pc = "placed"
  /\ \E i \in Jobs : JxlEntry(files[i]) \in fs[FinalPath].e
  /\ \E f \in tree : IsPassthrough(f) /\ RawEntry(f) \in fs[FinalPath].e

\* C22: in new-directory mode of compress_comics_TheHardew no file is visible
\* at the final destination path while workers are still appending or before
\* the verification has passed.
C22_HardewDestinationHidden ==
  (variant = "hardew" /\ mode = "new_directory"
     /\ pc \in {"dispatch", "poll", "copy", "verify"}) =>
    ~Exists(fs.dest)

\* C23: after any sequence of worker appends and the passthrough copy for
\* one archive, the entry names in the written archive are pairwise distinct,
\* also when two files of the tree differ only in their extension.
C23_EntryNamesDistinct ==
  variant \in Pipeline =>
    \A x \in fs[WriteTarget].e : \A y \in fs[WriteTarget].e :
      x.name = y.name => x = y

C25_OutputIsCbz ==
  pc = "resolved" =>
    /\ output_file.dir = input_file.dir
    /\ output_file.stem = input_file.stem
    /\ output_file.ext = ".cbz"

\* C26: quality and distance are mutually exclusive in the options given
\* to the encoder: for every accepted command line the argument list built
\* by _transcode_file never holds both --distance and --quality.
C26_DistanceXorQuality ==
  pc = "built" =>
    ~(\E i, j \in 1..Len(program_string) :
         program_string[i] = "--distance" /\ program_string[j] = "--quality")

\* C27: in compress_comics_TheHardew, when the destination of an archive
\* exists in new-directory mode, the turn of the loop for that archive
\* dispatches no job, leaves the batch running for the next archive, and
\* adds the archive's original size to the aggregate compressed size.
C27_SkipCountsOriginalSize ==
  [][ (batch = "running" /\ remaining > 0
         /\ mode = "new_directory" /\ Exists(fs.dest))
      => (/\ pc' = "skipped"
          /\ Launches' = 0
          /\ \A i \in DOMAIN js' : js'[i] = "new"
          /\ batch' = "running" /\ exc' = "none"
          /\ book' = book + 1
          /\ compressed_size' = compressed_size + SizeOf(fs.src)) ]_vars

\* C27 witness: the first archive of a batch held images and was skipped,
\* its original size is the aggregate so far, and another archive is due.
C27_Witness ==
  /\ pc = "skipped" /\ book = 2 /\ remaining = 1 /\ batch = "running"
  /\ Len(files) > 0 /\ Launches = 0
  /\ compressed_size = SizeOf(Orig)

\* C28: each transcodable image of an archive is dispatched as exactly one
\* job and its encoder is invoked at most once: once __transcode has built
\* the job list, every file of the tree with extension .png/.gif/.jpg/.jpeg
\* (in any case) is in it exactly once and nothing else is; an encoder is
\* started only for a queued job, and a job that was taken is never queued
\* again.
C28_OneJobPerImage ==
  [][ /\ (variant' = "class" /\ pool' # "none") =>
           (/\ \A f \in tree' : IsTranscodable(f) =>
                   Cardinality({ i \in DOMAIN files' : files'[i] = f }) = 1
            /\ \A i \in DOMAIN files' :
                   files'[i] \in tree' /\ IsTranscodable(files'[i])
            /\ DOMAIN js' = DOMAIN files')
      /\ (variant = "class" /\ DOMAIN js' = DOMAIN js) =>
           (\A i \in DOMAIN js :
               /\ (js'[i] = "encoding" /\ js[i] # "encoding") => (js[i] = "queued")
               /\ (js[i] \notin {"new", "queued"}) => (js'[i] \notin {"new", "queued"})) ]_vars

\* C28 witness: an archive of three images, one of them sub/b.PNG, has had
\* every job run and counted.
C28_Witness ==
  /\ variant = "class" /\ Len(files) = MaxFiles
  /\ \E i \in DOMAIN files : files[i] = P("sub", "b", ".PNG")
  /\ \A i \in DOMAIN js : js[i] = "counted"

\* C29: with concurrency limit T, at most T encoder invocations of the
\* archive in flight are running at the same time, in every reachable state.
C29_AtMostThreadsEncoders ==
  Cardinality({ i \in Jobs : js[i] = "encoding" }) <= Threads

\* C29 witness: T encoders are running while a further job of the same
\* archive is queued and has to wait.
C29_Witness ==
  /\ Cardinality({ i \in Jobs : js[i] = "encoding" }) = Threads
  /\ \E i \in Jobs : js[i] = "queued"

\* C30: if every encoder invocation terminates and no user interrupt
\* occurs, every call of ComicCompressor.compress eventually returns or
\* raises: the polling loop and pool.join end in every execution, also when
\* the error handler terminates the pool while a worker holds the archive
\* lock or while other workers wait for it.
C30_CompressTerminates ==
  (variant = "class" /\ pc = "ready") ~> (pc \in {"returned", "raised"})

\* C30 witness: the polling loop and pool.join have ended although the
\* error handler terminated the pool while one worker was inside the append
\* (it was killed there, the archive is cut off) and another was killed too.
C30_Witness ==
  /\ variant = "class" /\ pc = "copy"
  /\ pool = "terminated"
  /\ \E i \in Jobs : js[i] = "failed"
  /\ Cardinality({ i \in Jobs : js[i] = "killed" }) >= 2
  /\ fs[WriteTarget].k = "torn"

\* C31: every job reported as successful to the orchestrator (its success
\* callback has fired) has appended its .jxl entry: at the join point the
\* written archive holds the entry of every counted job, and as many image
\* entries as there are counted jobs, also when a worker was interrupted.
C31_CountedJobsHaveEntries ==
  (variant \in Pipeline /\ pc = "copy") =>
    /\ \A i \in Jobs : js[i] = "counted" => JxlEntry(files[i]) \in fs[WriteTarget].e
    /\ Cardinality({ i \in Jobs : js[i] = "counted" })
         = Cardinality({ x \in fs[WriteTarget].e : \E i \in Jobs : x \in EntriesOf(i) })

\* C32: after the noise-removal step and before classification the
\* extracted tree holds no checksum sidecar (.sfv) and no Thumbs.db at any
\* directory depth.
C32_NoNoiseAtAnyDepth ==
  (variant \in Pipeline /\ pc = "unpacked") =>
    \A f \in tree : f.ext # ".sfv" /\ ~(f.stem = "Thumbs" /\ f.ext = ".db")

\* C35: find_input_files never returns two pairs with the same output
\* path: distinct source archives of one batch resolve to distinct
\* destinations, also when a directory holds both A.cbr and A.cbz.
C35_OutputsDistinct ==
  pc = "listed" =>
    \A i, j \in DOMAIN files :
      (files[i].input # files[j].input) => (files[i].output # files[j].output)

\* C36: the list of archives to process is fixed before any archive is
\* compressed and, without the overwrite flag, holds no file located under
\* the output directory.
C36_NoInputUnderOutput ==
  (pc = "listed" /\ ~argv.overwrite) =>
    \A i \in DOMAIN files : ~InParents(argv.output_directory, files[i].input)

\* C34: when -o is not given, the path of a source archive of the batch is
\* never the target of a placement or of a deletion: no output path handed
\* to the loop is the path of a listed source, and no archive leaves the
\* disk, also when the inputs lie in the output directory.
C34_SourceNeverTargetWithoutO ==
  [][ (~argv.overwrite) =>
        /\ tree' = tree
        /\ \A i, j \in DOMAIN files' : files'[i].output # files'[j].input ]_vars

\* C34 witness: without -o a list was resolved for an input that lies in
\* the output directory itself, next to an input outside it.
C34_Witness ==
  /\ ~argv.overwrite /\ pc = "listed" /\ Len(files) = MaxInputs
  /\ \E i \in DOMAIN files : InParents(argv.output_directory, files[i].input)
  /\ \E i \in DOMAIN files : ~InParents(argv.output_directory, files[i].input)

\* compress() was called for the book and raised: the exceptions that leave
\* ComicCompressor.compress.
compress_raised ==
  pc = "raised" /\ exc \in {"RuntimeError", "ValueError", "KeyboardInterrupt"}

C37_WorkingDirectoryRestored ==
  (variant \in {"class", "hardew"}
     /\ pc \in {"ready", "returned", "skipped", "raised"}) => cwd = "base"

\* C37 witness: compress raised out of the verification, which runs inside
\* the scratch directory, and the process is back in the base directory.
C37_Witness ==
  /\ variant = "class" /\ pc = "raised" /\ exc = "RuntimeError"
  /\ pool = "terminated" /\ \E i \in Jobs : js[i] = "counted"
  /\ cwd = "base"

\* C38: when the per-image thread count is not given, K is the integer
\* quotient of the available parallelism P by the concurrency limit T: for
\* every accepted T the encoder is given K with T*K <= P, P - T*K < T and
\* K >= 1.
C38_ThreadsPerImage ==
  (pc = "parsed" /\ argv.num_threads = None) =>
    LET T == threads_of(argv)
        K == default_num_threads(argv)
    IN /\ encoder_options.num_threads = <<str(K)>>
       /\ T * K <= CpuCount
       /\ CpuCount - T * K < T
       /\ K >= 1

====
